---- MODULE Spec2Model ----
(***************************************************************************)
(* Goblin.GjkEpa2: GJK + EPA narrow-phase collision detection              *)
(* (src/classes/Collision/GjkEpa2.js).                                     *)
(*                                                                         *)
(* Coordinates are exact fixed-point numbers: one model unit is 1/Unit of  *)
(* a world unit, so every vector of the program is an integer triple, or a *)
(* rational one kept as numerator and denominator.  Normalised vectors are *)
(* kept symbolically (the integer vector they were normalised from), and   *)
(* every comparison the code makes on them is decided exactly.             *)
(***************************************************************************)
EXTENDS Integers, Sequences, FiniteSets, TLC

(* ------------------------------------------------------------------ *)
(* Bounds of the model                                                  *)
(* ------------------------------------------------------------------ *)

\* model units per world unit (resolution of the input coordinates)
Unit == 100

\* number of testCollision calls in one behaviour
MaxQueries == 2

(* ------------------------------------------------------------------ *)
(* Program constants                                                    *)
(* ------------------------------------------------------------------ *)

\* Goblin.GjkEpa2.max_iterations
max_iterations == 20

\* Goblin.GjkEpa2.margins = 0.03 = margins_num / margins_den
margins_num == 3
margins_den == 100

\* Goblin.GjkEpa2.epa_condition = 0.001 = 1 / epa_condition_den
epa_condition_den == 1000

\* Goblin.EPSILON = 0.00001 = 1 / EPSILON_den
EPSILON_den == 100000

(* ------------------------------------------------------------------ *)
(* Exact arithmetic                                                     *)
(* ------------------------------------------------------------------ *)

Abs(x) == IF x < 0 THEN -x ELSE x

Sgn(x) == IF x < 0 THEN -1 ELSE IF x = 0 THEN 0 ELSE 1

RECURSIVE Gcd(_, _)
Gcd(a, b) == IF b = 0 THEN a ELSE Gcd(b, a % b)

\* sign of a/c - d/b for naturals a, d and positive c, b (no product is formed)
RECURSIVE CmpRat(_, _, _, _)
CmpRat(a, c, d, b) ==
    CASE a \div c < d \div b -> -1
      [] a \div c > d \div b -> 1
      [] a \div c = d \div b /\ a % c = 0 /\ d % b = 0 -> 0
      [] a \div c = d \div b /\ a % c = 0 /\ d % b # 0 -> -1
      [] a \div c = d \div b /\ a % c # 0 /\ d % b = 0 -> 1
      [] OTHER -> CmpRat(b, d % b, c, a % c)

\* sign of a*b - c*d for naturals a, b, c, d
CmpProd(a, b, c, d) ==
    IF a = 0 \/ b = 0 THEN (IF c = 0 \/ d = 0 THEN 0 ELSE -1)
    ELSE IF c = 0 \/ d = 0 THEN 1
    ELSE CmpRat(a, c, d, b)

\* a rational number n/d, d > 0, in lowest terms
Rat(n, d) ==
    LET g == Gcd(Abs(n), d)
    IN  [n |-> n \div g, d |-> d \div g]

\* sign of r - s for non-negative rationals r, s
RatCmp(r, s) == CmpProd(r.n, s.d, s.n, r.d)

(* ------------------------------------------------------------------ *)
(* Goblin.Vector3 (integer triples)                                     *)
(* ------------------------------------------------------------------ *)

Zero3 == <<0, 0, 0>>

addVectors(u, v) == <<u[1] + v[1], u[2] + v[2], u[3] + v[3]>>

subtractVectors(u, v) == <<u[1] - v[1], u[2] - v[2], u[3] - v[3]>>

scaleVector(u, s) == <<u[1] * s, u[2] * s, u[3] * s>>

dot(u, v) == u[1] * v[1] + u[2] * v[2] + u[3] * v[3]

crossVectors(u, v) ==
    << u[2] * v[3] - u[3] * v[2],
       u[3] * v[1] - u[1] * v[3],
       u[1] * v[2] - u[2] * v[1] >>

lengthSquared(u) == dot(u, u)

\* u divided by the gcd of its components: the same direction, smaller numbers
Primitive(u) ==
    LET g == Gcd(Gcd(Abs(u[1]), Abs(u[2])), Abs(u[3]))
    IN  IF g = 0 THEN u ELSE <<u[1] \div g, u[2] \div g, u[3] \div g>>

(* ------------------------------------------------------------------ *)
(* Values a Vector3 of the program can hold besides an integer triple   *)
(*   "vec"  : exactly v                                                 *)
(*   "unit" : v / |v|             (normalize of a nonzero v)            *)
(*   "perp" : sg * (1 - |v_i| / |v|) per component (the line fallback)  *)
(*   "nan"  : NaN in every component (normalize of the zero vector)     *)
(* ------------------------------------------------------------------ *)

Vec(v) == [k |-> "vec", v |-> v, sg |-> 1]

NaNVec == [k |-> "nan", v |-> Zero3, sg |-> 1]

\* Vector3.normalize: x /= length, so the zero vector becomes NaN
normalize(v) ==
    IF v = Zero3 THEN NaNVec ELSE [k |-> "unit", v |-> Primitive(v), sg |-> 1]

\* Vector3.scale( -1 )
scaleMinusOne(d) ==
    IF d.k = "perp" THEN [d EXCEPT !.sg = -d.sg]
    ELSE IF d.k = "nan" THEN d
    ELSE [d EXCEPT !.v = scaleVector(d.v, -1)]

IsNaN(d) == d.k = "nan"

\* every component is exactly 0
IsZero(d) == d.k = "vec" /\ d.v = Zero3

\* sign of the dot product of d with the integer vector p: -1, 0, 1, or 2 when
\* the product is NaN (every comparison with it is then false)
SignDot(d, p) ==
    IF d.k = "nan" THEN 2
    ELSE IF d.k \in {"vec", "unit"} THEN Sgn(dot(d.v, p))
    ELSE \* "perp": sg * (S - T / L), S = sum of p, T = sum |v_i| p_i, L = |v|
        LET S == p[1] + p[2] + p[3]
            T == Abs(d.v[1]) * p[1] + Abs(d.v[2]) * p[2] + Abs(d.v[3]) * p[3]
            L2 == lengthSquared(d.v)
            mag == CmpProd(S * S, L2, T * T, 1)
            s == IF S >= 0 /\ T <= 0 THEN (IF S = 0 /\ T = 0 THEN 0 ELSE 1)
                 ELSE IF S <= 0 /\ T >= 0 THEN -1
                 ELSE IF S > 0 THEN mag
                 ELSE -mag
        IN  d.sg * s

(* ------------------------------------------------------------------ *)
(* Rigid bodies and the support oracle                                  *)
(* ------------------------------------------------------------------ *)

\* some vertex of the body lies strictly further along sg * d than vertex i
beaten(verts, d, sg, i) ==
    \E j \in 1..Len(verts) : SignDot(d, subtractVectors(verts[j], verts[i])) = sg

\* RigidBody.findSupportPoint( direction, out ): the first vertex of the body
\* that no other vertex beats along sg * d (the first vertex when d is NaN)
bodySupport(body, d, sg) ==
    body.verts[CHOOSE i \in 1..Len(body.verts) :
                  /\ ~beaten(body.verts, d, sg, i)
                  /\ \A k \in 1..(i - 1) : beaten(body.verts, d, sg, k)]

\* the SupportPoint filled in for object_a - object_b along direction
findSupportPoint(object_a, object_b, direction) ==
    LET wa == bodySupport(object_a, direction, 1)
        wb == bodySupport(object_b, direction, -1)
    IN  [witness_a |-> wa, witness_b |-> wb, point |-> subtractVectors(wa, wb)]

(* ------------------------------------------------------------------ *)
(* Goblin.ObjectPool, kind 'GJK2SupportPoint'                           *)
(* A SupportPoint object is its index in heap; pool lists the free ones *)
(* ------------------------------------------------------------------ *)

\* ObjectPool.getObject: pop the last free object, or construct a new one
getObject(pl, hp) ==
    IF Len(pl) > 0
    THEN [id |-> pl[Len(pl)], pool |-> SubSeq(pl, 1, Len(pl) - 1)]
    ELSE [id |-> Len(hp) + 1, pool |-> pl]

\* ObjectPool.freeObject: push the object on the free list
freeObject(pl, id) == Append(pl, id)

\* Array.indexOf( x ) === -1
NotIn(seq, x) == \A i \in 1..Len(seq) : seq[i] # x

(* ------------------------------------------------------------------ *)
(* Simplex: S = [points, next_direction, pool, heap]                    *)
(* ------------------------------------------------------------------ *)

\* this.points[i].point, i counted from 0 as in the source
Pt(S, i) == S.heap[S.points[i + 1]].point

\* (u x v) x u
tripleCross(u, v) == crossVectors(crossVectors(u, v), u)

findDirectionFromLine(S) ==
    LET ao == scaleVector(Pt(S, 1), -1)
        ab == subtractVectors(Pt(S, 0), Pt(S, 1))
        nd == tripleCross(ab, ao)
    IN  IF dot(ab, ao) < 0
        THEN [S EXCEPT !.next_direction = Vec(ao),
                       !.pool = freeObject(S.pool, S.points[2]),
                       !.points = SubSeq(S.points, 1, 1)]
        ELSE IF nd = Zero3
        THEN [S EXCEPT !.next_direction =
                 IF ab = Zero3 THEN NaNVec
                 ELSE [k |-> "perp", v |-> Primitive(ab), sg |-> 1]]
        ELSE [S EXCEPT !.next_direction = Vec(nd)]

findDirectionFromTriangle(S) ==
    LET a == S.points[3]
        b == S.points[2]
        c == S.points[1]
        ao == scaleVector(Pt(S, 2), -1)
        ab == subtractVectors(Pt(S, 1), Pt(S, 2))
        ac == subtractVectors(Pt(S, 0), Pt(S, 2))
        n == crossVectors(ab, ac)
        eab == crossVectors(ab, n)
        eac == crossVectors(n, ac)
        lineAC == [S EXCEPT !.points = <<c, a>>,
                            !.pool = freeObject(S.pool, b),
                            !.next_direction = Vec(tripleCross(ac, ao))]
        lineAB == [S EXCEPT !.points = <<b, a>>,
                            !.pool = freeObject(S.pool, c),
                            !.next_direction = Vec(tripleCross(ab, ao))]
        onlyA == [S EXCEPT !.points = <<a>>,
                           !.pool = freeObject(freeObject(S.pool, b), c)]
    IN  IF dot(eac, ao) >= 0
        THEN IF dot(ac, ao) >= 0 THEN lineAC
             ELSE IF dot(ab, ao) >= 0 THEN lineAB
             ELSE onlyA
        ELSE IF dot(eab, ao) >= 0
        THEN IF dot(ab, ao) >= 0 THEN lineAB ELSE onlyA
        ELSE IF dot(n, ao) >= 0
        THEN [S EXCEPT !.next_direction = Vec(n), !.points = <<a, b, c>>]
        ELSE [S EXCEPT !.next_direction = Vec(scaleVector(n, -1))]

\* the unnormalised normal (b - a) x (c - a) of the points with ids a, b, c
faceCross(hp, a, b, c) ==
    crossVectors(subtractVectors(hp[b].point, hp[a].point),
                 subtractVectors(hp[c].point, hp[a].point))

getFaceNormal(hp, a, b, c) == normalize(faceCross(hp, a, b, c))

\* the dot product of the unit vectors along n and o as t / sqrt(m), or NaN
unitDot(n, o) ==
    IF n = Zero3 \/ o = Zero3
    THEN [nan |-> TRUE, t |-> 0, m |-> 1]
    ELSE [nan |-> FALSE, t |-> dot(n, o), m |-> lengthSquared(n) * lengthSquared(o)]

faceNormalDotOrigin(hp, a, b, c) ==
    unitDot(Primitive(faceCross(hp, a, b, c)),
            Primitive(scaleVector(
                addVectors(addVectors(hp[a].point, hp[b].point), hp[c].point), -3)))

\* face_dot > Goblin.EPSILON
AboveEpsilon(fd) ==
    /\ ~fd.nan
    /\ fd.t > 0
    /\ fd.t * fd.t > (fd.m \div EPSILON_den) \div EPSILON_den

\* face_dot > closest_dot, closest_dot being EPSILON (face 0) or an earlier face_dot
DotGreater(fd, closest) ==
    IF closest.face = 0 THEN AboveEpsilon(fd)
    ELSE /\ ~fd.nan
         /\ fd.t > 0
         /\ CmpProd(fd.t * fd.t, closest.dot.m, closest.dot.t * closest.dot.t, fd.m) = 1

\* lines 648-669: face becomes the closest one when its face_dot beats closest_dot
closerFace(fd, face, closest) ==
    IF DotGreater(fd, closest) THEN [face |-> face, dot |-> fd] ELSE closest

\* lines 671-699: the simplex cut back to the face a, b, c, searching along its normal
keepFace(S, a, b, c) ==
    [S |-> [S EXCEPT !.points = <<a, b, c>>,
                     !.next_direction = getFaceNormal(S.heap, a, b, c)],
     ret |-> FALSE]

\* lines 671-699 for points a, b, c, d
reduceTetrahedron(S, closest_face, a, b, c, d) ==
    IF closest_face = 0 THEN [S |-> S, ret |-> TRUE]
    ELSE IF closest_face = 1 THEN keepFace(S, b, c, d)
    ELSE IF closest_face = 2 THEN keepFace(S, a, c, b)
    ELSE IF closest_face = 3 THEN keepFace(S, c, a, d)
    ELSE keepFace(S, d, a, b)

\* lines 640-669 for points a, b, c, d: 0 (null) or the face that faces the origin most
closestFaceOf(hp, a, b, c, d) ==
    closerFace(faceNormalDotOrigin(hp, d, a, b), 4,
        closerFace(faceNormalDotOrigin(hp, c, a, d), 3,
            closerFace(faceNormalDotOrigin(hp, a, c, b), 2,
                closerFace(faceNormalDotOrigin(hp, b, c, d), 1,
                    [face |-> 0, dot |-> [nan |-> FALSE, t |-> 0, m |-> 1]])))).face

\* a tetrahedron case that keeps all four points when a face faces the origin
findDirectionFromTetrahedronKeepsAll(S) == [S |-> S, ret |-> FALSE]

findDirectionFromTetrahedron(S) ==
    reduceTetrahedron(S,
        closestFaceOf(S.heap, S.points[4], S.points[3], S.points[2], S.points[1]),
        S.points[4], S.points[3], S.points[2], S.points[1])

\* ret is TRUE only when the tetrahedron case reports a collision
updateDirection(S, object_a, object_b) ==
    IF Len(S.points) = 0
    THEN [S |-> [S EXCEPT !.next_direction =
                    Vec(subtractVectors(object_b.position, object_a.position))],
          ret |-> FALSE]
    ELSE IF Len(S.points) = 1
    THEN [S |-> [S EXCEPT !.next_direction = scaleMinusOne(S.next_direction)],
          ret |-> FALSE]
    ELSE IF Len(S.points) = 2
    THEN [S |-> findDirectionFromLine(S), ret |-> FALSE]
    ELSE IF Len(S.points) = 3
    THEN [S |-> findDirectionFromTriangle(S), ret |-> FALSE]
    ELSE findDirectionFromTetrahedron(S)

(* ------------------------------------------------------------------ *)
(* Goblin.GeometryMethods                                               *)
(* ------------------------------------------------------------------ *)

\* the rational vector num / den in lowest terms
RatVec(num, den) ==
    LET g == Gcd(Gcd(Gcd(Abs(num[1]), Abs(num[2])), Abs(num[3])), den)
    IN  [n |-> <<num[1] \div g, num[2] \div g, num[3] \div g>>, d |-> den \div g]

\* the point of segment p + t (q - p), 0 <= t <= 1, nearest the origin, known to
\* lie inside the segment; d2 is its squared distance from the origin
closestOnEdge(p, q) ==
    LET e == subtractVectors(q, p)
        ee == dot(e, e)
        t == -dot(p, e)
    IN  IF ee = 0 THEN [point |-> RatVec(p, 1), d2 |-> Rat(dot(p, p), 1)]
        ELSE [point |-> RatVec(addVectors(scaleVector(p, ee), scaleVector(e, t)), ee),
              d2 |-> Rat(dot(p, p) * ee - dot(p, e) * dot(p, e), ee)]

closestAtVertex(p) == [point |-> RatVec(p, 1), d2 |-> Rat(dot(p, p), 1)]

\* findClosestPointInTriangle( origin, a, b, c, out ): the point of the triangle
\* nearest the origin, by the region of the triangle the origin projects into
findClosestPointInTriangle(a, b, c) ==
    LET ab == subtractVectors(b, a)
        ac == subtractVectors(c, a)
        d1 == -dot(ab, a)
        d2 == -dot(ac, a)
        d3 == -dot(ab, b)
        d4 == -dot(ac, b)
        d5 == -dot(ab, c)
        d6 == -dot(ac, c)
        vc == d1 * d4 - d3 * d2
        vb == d5 * d2 - d1 * d6
        va == d3 * d6 - d5 * d4
        n == Primitive(crossVectors(ab, ac))
        na == dot(n, a)
    IN  IF d1 <= 0 /\ d2 <= 0 THEN closestAtVertex(a)
        ELSE IF d3 >= 0 /\ d4 <= d3 THEN closestAtVertex(b)
        ELSE IF vc <= 0 /\ d1 >= 0 /\ d3 <= 0 THEN closestOnEdge(a, b)
        ELSE IF d6 >= 0 /\ d5 <= d6 THEN closestAtVertex(c)
        ELSE IF vb <= 0 /\ d2 >= 0 /\ d6 <= 0 THEN closestOnEdge(a, c)
        ELSE IF va <= 0 /\ d4 - d3 >= 0 /\ d5 - d6 >= 0 THEN closestOnEdge(b, c)
        ELSE IF n = Zero3 THEN closestAtVertex(a)
        ELSE [point |-> RatVec(scaleVector(n, na), dot(n, n)),
              d2 |-> Rat(na * na, dot(n, n))]

\* findBarycentricCoordinates( point, a, b, c, out ) leaves NaN in out.x exactly
\* when the triangle is degenerate: denom = d00 * d11 - d01 * d01 is 0
barycentricIsNaN(a, b, c) ==
    LET v0 == subtractVectors(b, a)
        v1 == subtractVectors(c, a)
    IN  dot(v0, v0) * dot(v1, v1) - dot(v0, v1) * dot(v0, v1) = 0

(* ------------------------------------------------------------------ *)
(* Thresholds, on squared lengths r (rationals, in model units)         *)
(* ------------------------------------------------------------------ *)

\* r <= margins * margins
WithinMargins(r) ==
    CmpProd(r.n, margins_den * margins_den, margins_num * margins_num * Unit * Unit, r.d) <= 0

\* sign of r - Goblin.EPSILON
CmpEpsilon(r) == CmpProd(r.n, EPSILON_den, Unit * Unit, r.d)

\* r < epa_condition
BelowEpaCondition(r) == CmpProd(r.n, epa_condition_den, Unit * Unit, r.d) < 0

(* ------------------------------------------------------------------ *)
(* ContactDetails: which path built it, for which query, and whether    *)
(* its contact points were computed from NaN barycentric coordinates    *)
(* ------------------------------------------------------------------ *)

\* null / undefined
NoContact == [kind |-> "none", query |-> 0, nan |-> FALSE]

ContactDetails(kind, query, nan) == [kind |-> kind, query |-> query, nan |-> nan]

(* ------------------------------------------------------------------ *)
(* Simplex.addPoint                                                     *)
(* S = [points, next_direction, iterations, pool, heap, result]         *)
(* ret: "false", "null" or "point" (the support point, truthy)          *)
(* got: the SupportPoint taken from the pool (0: none)                  *)
(* how: which return statement was taken                                *)
(* ------------------------------------------------------------------ *)

\* the shallow contact of lines 417-472: stash it in result, return null
marginHit(S, query) ==
    [S EXCEPT !.result = ContactDetails("shallow", query,
                            barycentricIsNaN(Pt(S, 0), Pt(S, 1), Pt(S, 2)))]

\* lines 400-402: the SupportPoint g.id, filled in, is pushed on the simplex
pushPoint(S, g, support_point) ==
    [S EXCEPT !.pool = g.pool,
              !.heap = IF g.id > Len(S.heap) THEN Append(S.heap, support_point)
                       ELSE [S.heap EXCEPT ![g.id] = support_point],
              !.points = Append(S.points, g.id)]

\* lines 485-486: what addPoint returns after updateDirection
afterUpdate(u, got) ==
    IF u.ret
    THEN [S |-> u.S, ret |-> "null", got |-> got, how |-> "tetrahedron"]
    ELSE [S |-> u.S, ret |-> "point", got |-> got, how |-> "continue"]

\* lines 404-486: S holds the new support point as its last point
afterPush(S, got, object_a, object_b, query) ==
    IF SignDot(S.next_direction, S.heap[got].point) = -1 /\ Len(S.points) > 1
    THEN IF /\ Len(S.points) >= 3
            /\ WithinMargins(findClosestPointInTriangle(Pt(S, 0), Pt(S, 1), Pt(S, 2)).d2)
         THEN [S |-> marginHit(S, query), ret |-> "null", got |-> got, how |-> "margin"]
         ELSE [S |-> S, ret |-> "false", got |-> got, how |-> "outside"]
    ELSE afterUpdate(updateDirection(S, object_a, object_b), got)

\* lines 400-486: g is what getObject gave
sampleAndPush(S, g, object_a, object_b, query) ==
    afterPush(pushPoint(S, g, findSupportPoint(object_a, object_b, S.next_direction)),
              g.id, object_a, object_b, query)

\* lines 396-486 with ++iterations done
addPointCounted(S, object_a, object_b, query) ==
    IF S.iterations = max_iterations
    THEN [S |-> S, ret |-> "false", got |-> 0, how |-> "cap"]
    ELSE sampleAndPush(S, getObject(S.pool, S.heap), object_a, object_b, query)

addPoint(S, object_a, object_b, query) ==
    addPointCounted([S EXCEPT !.iterations = S.iterations + 1], object_a, object_b, query)

\* freeSimplex: every point of the simplex goes back to the pool
RECURSIVE freeSimplex(_, _)
freeSimplex(pl, pts) ==
    IF pts = <<>> THEN pl ELSE freeSimplex(freeObject(pl, Head(pts)), Tail(pts))

\* GJK without the result = null of line 73
GJKBeginKeepsResult(S, object_a, object_b) ==
    LET fresh == [S EXCEPT !.points = <<>>, !.iterations = 0, !.next_direction = Vec(Zero3)]
    IN  updateDirection(fresh, object_a, object_b).S

\* the start of GJK, lines 70-73: new Simplex( object_a, object_b ), result = null
GJKBegin(S, object_a, object_b) ==
    LET fresh == [S EXCEPT !.points = <<>>, !.iterations = 0, !.next_direction = Vec(Zero3)]
    IN  [updateDirection(fresh, object_a, object_b).S EXCEPT !.result = NoContact]

\* testCollision without the test of the result register of line 53
testCollisionBranchNoResult(res, simplexIsNull) ==
    IF ~simplexIsNull /\ res = NoContact THEN "EPA" ELSE "undefined"

\* the branch testCollision takes after GJK
testCollisionBranch(res, simplexIsNull) ==
    IF res # NoContact THEN "result"
    ELSE IF ~simplexIsNull THEN "EPA"
    ELSE "undefined"

(* ------------------------------------------------------------------ *)
(* Face and Polyhedron                                                  *)
(* A face is its index in polyhedron.faces; neighbors holds indices     *)
(* ------------------------------------------------------------------ *)

\* new Face( polyhedron, a, b, c ): neighbors is filled in by the caller
Face(hp, a, b, c, neighbors) ==
    [active |-> TRUE, a |-> a, b |-> b, c |-> c,
     normal |-> getFaceNormal(hp, a, b, c), neighbors |-> neighbors]

\* new Polyhedron( simplex ): the four faces of the tetrahedron and their adjacency
Polyhedron(hp, pts) ==
    << Face(hp, pts[3], pts[2], pts[1], <<2, 3, 4>>),
       Face(hp, pts[4], pts[2], pts[3], <<3, 1, 4>>),
       Face(hp, pts[2], pts[4], pts[1], <<2, 4, 1>>),
       Face(hp, pts[1], pts[4], pts[3], <<3, 2, 1>>) >>

\* Face.classifyVertex( vertex ) >= 0: a vertex in the plane of the face counts as in front
classifyVertexNotBehind(hp, face, vertex) ==
    SignDot(face.normal, subtractVectors(hp[vertex].point, hp[face.a].point)) \in {0, 1}

\* Face.classifyVertex( vertex ) > 0
classifyVertexPositive(hp, face, vertex) ==
    SignDot(face.normal, subtractVectors(hp[vertex].point, hp[face.a].point)) = 1

\* Array.indexOf, counted from 0, -1 when absent
indexOf(seq, x) ==
    IF \E i \in 1..Len(seq) : seq[i] = x
    THEN (CHOOSE i \in 1..Len(seq) : seq[i] = x /\ \A j \in 1..(i - 1) : seq[j] # x) - 1
    ELSE -1

\* lines 353-355: the face turns inactive; every call of silhouette is counted
deactivate(st, f) == [st EXCEPT !.calls = st.calls + 1, !.faces[f].active = FALSE]

\* lines 360-374: the edge of face f shared with source, as << face, index, source, b, a >>
pushEdge(st, f, source) ==
    LET face == st.faces[f]
        neighbor_idx == indexOf(face.neighbors, source)
        a == IF neighbor_idx = 0 THEN face.a ELSE IF neighbor_idx = 1 THEN face.b ELSE face.c
        b == IF neighbor_idx = 0 THEN face.b ELSE IF neighbor_idx = 1 THEN face.c ELSE face.a
    IN  [st EXCEPT !.calls = st.calls + 1,
                   !.edges = Append(st.edges, <<f, neighbor_idx, source, b, a>>)]

\* Face.silhouette( point, edges, source ) on face f; st = [faces, edges, calls],
\* source 0 when the argument is absent; s1, s2 are the states the first and the
\* second neighbor's traversal leave
RECURSIVE silhouette(_, _, _, _, _)
silhouette(hp, st, f, point, source) ==
    CASE ~st.faces[f].active -> [st EXCEPT !.calls = st.calls + 1]
      [] st.faces[f].active /\ classifyVertexPositive(hp, st.faces[f], point) ->
            CHOOSE r \in
                { silhouette(hp, s2, st.faces[f].neighbors[3], point, f) :
                    s2 \in { silhouette(hp, s1, st.faces[f].neighbors[2], point, f) :
                        s1 \in { silhouette(hp, deactivate(st, f),
                                            st.faces[f].neighbors[1], point, f) } } } : TRUE
      [] OTHER -> IF source # 0 THEN pushEdge(st, f, source)
                  ELSE [st EXCEPT !.calls = st.calls + 1]

\* the first j > i whose edge starts at last_b, 0 when there is none
findEdge(edges, i, last_b) ==
    IF \E j \in (i + 1)..Len(edges) : edges[j][4] = last_b
    THEN CHOOSE j \in (i + 1)..Len(edges) :
            edges[j][4] = last_b /\ \A k \in (i + 1)..(j - 1) : edges[k][4] # last_b
    ELSE 0

\* addVertex without the re-ordering pass of lines 256-285
reorderEdgesSkipped(edges, i, last_b) == edges

\* addVertex lines 256-285: re-order the edges, all but the last one
RECURSIVE reorderEdges(_, _, _)
reorderEdges(edges, i, last_b) ==
    IF i > Len(edges) - 1 THEN edges
    ELSE LET j == IF i # 1 /\ last_b # edges[i][4] THEN findEdge(edges, i, last_b) ELSE 0
             swapped == IF j = 0 THEN edges
                        ELSE [edges EXCEPT ![i] = edges[j], ![j] = edges[i]]
         IN  reorderEdges(swapped, i + 1, swapped[i][5])

\* addVertex lines 287-296: the new face on one edge, hooked to the face beyond it;
\* index is the place the new face takes in this.faces
hookFace(hp, faces, edge, vertex, index) ==
    Append(IF indexOf(faces[edge[1]].neighbors, edge[3]) = -1 THEN faces
           ELSE [faces EXCEPT ![edge[1]].neighbors[
                                  indexOf(faces[edge[1]].neighbors, edge[3]) + 1] = index],
           Face(hp, edge[5], vertex, edge[4], <<0, 0, edge[1]>>))

\* addVertex lines 287-297: one new face per edge, from edge i on
RECURSIVE buildFaces(_, _, _, _, _, _)
buildFaces(hp, faces, edges, i, vertex, first) ==
    IF i > Len(edges) THEN faces
    ELSE CHOOSE r \in
            { buildFaces(hp, fs, edges, i + 1, vertex, first) :
                fs \in { hookFace(hp, faces, edges[i], vertex, first + i - 1) } } : TRUE

\* the fan linked the wrong way round
linkFanReversed(faces, first, last) ==
    [f \in 1..Len(faces) |->
        IF f < first THEN faces[f]
        ELSE [faces[f] EXCEPT !.neighbors[1] = IF f = first THEN last ELSE f - 1,
                              !.neighbors[2] = IF f = last THEN first ELSE f + 1]]

\* addVertex lines 299-302: the new faces first .. last are linked in a ring
linkFan(faces, first, last) ==
    [f \in 1..Len(faces) |->
        IF f < first THEN faces[f]
        ELSE [faces[f] EXCEPT !.neighbors[1] = IF f = last THEN first ELSE f + 1,
                              !.neighbors[2] = IF f = first THEN last ELSE f - 1]]

\* addVertex lines 287-305: the faces built on the ordered edges, linked and pushed
pushFaces(hp, faces, edges, vertex, first, calls) ==
    [faces |-> linkFan(buildFaces(hp, faces, edges, 1, vertex, first),
                       first, first + Len(edges) - 1),
     edges |-> edges, calls |-> calls]

\* addVertex lines 256-305: sil is what the silhouette traversal left
\* raw: the edges in the order the silhouette traversal pushed them
ringOf(hp, sil, vertex, first) ==
    [raw |-> sil.edges] @@
    pushFaces(hp, sil.faces, reorderEdges(sil.edges, 1, 0), vertex, first, sil.calls)

\* Polyhedron.addVertex( vertex ): [faces, edges, calls]
addVertex(hp, faces, closest_face, vertex) ==
    ringOf(hp,
           silhouette(hp, [faces |-> faces, edges |-> <<>>, calls |-> 0],
                      closest_face, vertex, 0),
           vertex, Len(faces) + 1)

\* line 321: the point of the face nearest to the origin, and its squared distance
closestOnFace(hp, face) ==
    findClosestPointInTriangle(hp[face.a].point, hp[face.b].point, hp[face.c].point)

\* lines 317-323: the face is active and q is nearer than the best so far
closerToOrigin(face, q, best) ==
    face.active /\ (best.infinite \/ RatCmp(q.d2, best.closest_face_distance) < 0)

\* lines 324-326: face i becomes the closest face
closestIs(i, q) ==
    [infinite |-> FALSE, closest_face |-> i,
     closest_face_distance |-> q.d2, closest_point |-> q.point]

\* Polyhedron.findFaceClosestToOrigin: the first active face at the least distance
RECURSIVE findFaceClosestToOrigin(_, _, _, _)
findFaceClosestToOrigin(hp, faces, i, best) ==
    CASE i > Len(faces) -> best
      [] i <= Len(faces) /\ closerToOrigin(faces[i], closestOnFace(hp, faces[i]), best) ->
            findFaceClosestToOrigin(hp, faces, i + 1,
                                    closestIs(i, closestOnFace(hp, faces[i])))
      [] OTHER -> findFaceClosestToOrigin(hp, faces, i + 1, best)

\* the squared distance between the integer point p and the rational point q
gapSquared(p, q) ==
    LET w == subtractVectors(scaleVector(p, q.d), q.n)
    IN  Rat(dot(w, w), q.d * q.d)

\* freePolyhedron without the indexOf check of lines 100, 103 and 106
freeEvenIfPooled(pl, id) == freeObject(pl, id)

\* freePolyhedron: a, b, c of every face, each unless the pool already holds it
freeUnlessPooled(pl, id) == IF NotIn(pl, id) THEN freeObject(pl, id) ELSE pl

\* lines 99-108: the body of freePolyhedron's loop for one face
freeFace(pl, f) ==
    freeUnlessPooled(freeUnlessPooled(freeUnlessPooled(pl, f.a), f.b), f.c)

\* lines 94-110: the faces from index k on, in order; p is the pool after face k
RECURSIVE freeFacesFrom(_, _, _)
freeFacesFrom(pl, faces, k) ==
    IF k > Len(faces) THEN pl
    ELSE CHOOSE r \in {freeFacesFrom(p, faces, k + 1) : p \in {freeFace(pl, faces[k])}} : TRUE

freePolyhedron(pl, faces) == freeFacesFrom(pl, faces, 1)

\* the loop condition of line 145 without i === max_iterations
epaTerminatesNoCap(i, gap, closest_face_distance) ==
    BelowEpaCondition(gap) /\ CmpEpsilon(closest_face_distance) > 0

\* the loop condition of line 145 without closest_face_distance > Goblin.EPSILON
epaTerminatesNoDistance(i, gap, closest_face_distance) ==
    i = max_iterations \/ BelowEpaCondition(gap)

\* the loop condition of line 145
epaTerminates(i, gap, closest_face_distance) ==
    i = max_iterations \/ (BelowEpaCondition(gap) /\ CmpEpsilon(closest_face_distance) > 0)

\* an EPA that gives up instead of assembling a contact
assembleNothing(nan, query) == NoContact

\* the contact EPA assembles and returns, lines 147-204: null when the barycentric
\* coordinates of closest_point in the closest face are NaN
assembleContact(nan, query) ==
    IF nan THEN NoContact ELSE ContactDetails("epa", query, FALSE)

\* line 129: ++i and findFaceClosestToOrigin, c what it found
\* P = [faces, closest_face, closest_face_distance, closest_point, i, pool, heap]
withClosest(P, c) ==
    [P EXCEPT !.i = P.i + 1, !.closest_face = c.closest_face,
              !.closest_face_distance = c.closest_face_distance,
              !.closest_point = c.closest_point]

\* lines 132-136: the direction EPA samples along
epaDirection(P) ==
    IF CmpEpsilon(P.closest_face_distance) < 0 THEN P.faces[P.closest_face].normal
    ELSE Vec(P.closest_point.n)

\* lines 138-139: the SupportPoint g.id is taken from the pool and filled in
withSupport(P, g, support_point) ==
    [P EXCEPT !.pool = g.pool,
              !.heap = IF g.id > Len(P.heap) THEN Append(P.heap, support_point)
                       ELSE [P.heap EXCEPT ![g.id] = support_point]]

\* lines 147-204 and 164/202: EPA's return; pl is the pool after freePolyhedron
epaReturn(P, got, nan, query, how, pl) ==
    [P |-> [P EXCEPT !.pool = pl], ret |-> "return",
     contact |-> assembleContact(nan, query), got |-> got, nan |-> nan,
     calls |-> 0, edges |-> <<>>, raw |-> <<>>,
     freed |-> SubSeq(pl, Len(P.pool) + 1, Len(pl)), how |-> how]

\* line 207: grown is what addVertex made of the polyhedron
epaContinue(P, got, grown) ==
    [P |-> [P EXCEPT !.faces = grown.faces], ret |-> "continue", contact |-> NoContact,
     got |-> got, nan |-> FALSE, calls |-> grown.calls, edges |-> grown.edges,
     raw |-> grown.raw, freed |-> <<>>, how |-> "continue"]

\* lines 145-207: gap is the squared distance of the new support point from closest_point
epaDecide(P, got, gap, query) ==
    IF epaTerminates(P.i, gap, P.closest_face_distance)
    THEN epaReturn(P, got,
             barycentricIsNaN(P.heap[P.faces[P.closest_face].a].point,
                              P.heap[P.faces[P.closest_face].b].point,
                              P.heap[P.faces[P.closest_face].c].point),
             query,
             IF BelowEpaCondition(gap) /\ CmpEpsilon(P.closest_face_distance) > 0
             THEN "converged" ELSE "cap",
             freePolyhedron(P.pool, P.faces))
    ELSE epaContinue(P, got, addVertex(P.heap, P.faces, P.closest_face, got))

\* lines 138-207: g is what getObject gave
epaSample(P, g, object_a, object_b, query) ==
    epaDecide(withSupport(P, g, findSupportPoint(object_a, object_b, epaDirection(P))),
              g.id,
              gapSquared(findSupportPoint(object_a, object_b, epaDirection(P)).point,
                         P.closest_point),
              query)

\* lines 132-207: P after findFaceClosestToOrigin
epaExpand(P, object_a, object_b, query) ==
    epaSample(P, getObject(P.pool, P.heap), object_a, object_b, query)

\* one iteration of the EPA loop, lines 128-208
\* ret: "continue" or "return" (of contact); freed: what freePolyhedron handed to
\* freeObject
EPAIteration(P, object_a, object_b, query) ==
    epaExpand(withClosest(P,
                  findFaceClosestToOrigin(P.heap, P.faces, 1,
                      [infinite |-> TRUE, closest_face |-> P.closest_face,
                       closest_face_distance |-> P.closest_face_distance,
                       closest_point |-> P.closest_point])),
              object_a, object_b, query)

(* ------------------------------------------------------------------ *)
(* Inputs: convex bodies given by their world-space vertices            *)
(* ------------------------------------------------------------------ *)

Shift(shape, p) == [i \in DOMAIN shape |-> addVectors(shape[i], p)]

Body(shape, p) == [position |-> p, verts |-> Shift(shape, p)]

Box(h) == << <<h, h, h>>, <<h, h, -h>>, <<h, -h, h>>, <<h, -h, -h>>,
             <<-h, h, h>>, <<-h, h, -h>>, <<-h, -h, h>>, <<-h, -h, -h>> >>

Tetra(h) == << <<h, h, h>>, <<h, -h, -h>>, <<-h, h, -h>>, <<-h, -h, h>> >>

Square(h) == << <<h, h, 0>>, <<h, -h, 0>>, <<-h, -h, 0>>, <<-h, h, 0>> >>

Segment(h) == << <<-h, 0, 0>>, <<h, 0, 0>> >>

Point == << Zero3 >>

Pyramid(h) == << <<h, h, 0>>, <<h, -h, 0>>, <<-h, -h, 0>>, <<-h, h, 0>>, <<0, 0, -h>> >>

Blob == << <<2, 1, 0>>, <<-1, 2, 1>>, <<0, -2, 1>>, <<-1, -1, -2>>, <<1, 0, 2>>, <<-2, 0, 0>> >>

\* the pairs ( object_a, object_b ) testCollision is called with
Scenarios ==
    { <<Body(Box(1), Zero3), Body(Box(1), <<6, 0, 0>>)>>,            \* far apart
      <<Body(Box(1), Zero3), Body(Box(1), <<1, 0, 0>>)>>,            \* overlapping
      <<Body(Box(1), Zero3), Body(Box(1), Zero3)>>,                  \* coincident
      <<Body(Square(2), Zero3), Body(Pyramid(1), <<0, 0, 1>>)>>,     \* touching
      <<Body(Point, <<-1, 1, 1>>), Body(Blob, Zero3)>>,              \* within the margin
      <<Body(Point, <<-2, -2, 0>>), Body(Square(2), Zero3)>>,        \* flat, on the rim
      <<Body(Point, <<0, 0, 1>>), Body(Tetra(2), Zero3)>>,           \* point inside
      <<Body(Point, <<-2, -2, -1>>), Body(Segment(2), Zero3)>>,      \* point near a segment
      <<Body(Point, <<0, -2, -1>>), Body(Segment(2), Zero3)>>,
      <<Body(Segment(1), <<0, -1, 1>>), Body(Blob, Zero3)>>,         \* segment through
      <<Body(Square(1), <<0, -1, 0>>), Body(Pyramid(1), Zero3)>>,    \* coplanar faces
      <<Body(Point, <<-1, -1, 1>>), Body(Box(2), Zero3)>> }          \* edges out of order

(* ------------------------------------------------------------------ *)
(* State                                                                *)
(* ------------------------------------------------------------------ *)

VARIABLES
    pc,              \* "idle", "gjk" (in the GJK loop), "gjk_exit", "epa", "done"
    queries,         \* testCollision calls made so far
    object_a,        \* simplex.object_a
    object_b,        \* simplex.object_b
    points,          \* simplex.points
    iterations,      \* simplex.iterations
    next_direction,  \* simplex.next_direction
    last_point,      \* what the last addPoint returned
    pool,            \* Goblin.ObjectPool.pools['GJK2SupportPoint']
    heap,            \* every SupportPoint constructed so far
    result,          \* Goblin.GjkEpa2.result
    ret,             \* what the last testCollision returned
    faces,           \* polyhedron.faces (empty: no polyhedron built by this query)
    closest,         \* polyhedron.closest_face, closest_face_distance, closest_point
    i,               \* the loop counter of EPA
    acquired,        \* history: SupportPoints taken from the pool by this query
    how,             \* history: the return statement that ended the GJK loop
    epa              \* history: about the last EPA iteration

vars == <<pc, queries, object_a, object_b, points, iterations, next_direction,
          last_point, pool, heap, result, ret, faces, closest, i, acquired, how, epa>>

\* polyhedron.closest_face = null, closest_face_distance = null
NoClosest == [closest_face |-> 0, closest_face_distance |-> Rat(0, 1),
              closest_point |-> RatVec(Zero3, 1)]

\* history of an EPA iteration: how it ended, whether the barycentric coordinates
\* were NaN, the silhouette calls and ring of its addVertex, the vertex sampled,
\* and what the final freePolyhedron handed to freeObject
NoEpa == [how |-> "none", nan |-> FALSE, calls |-> 0, edges |-> <<>>, raw |-> <<>>,
          vertex |-> 0, freed |-> <<>>]

Init ==
    /\ pc = "idle"
    /\ queries = 0
    /\ object_a = Body(Point, Zero3)
    /\ object_b = Body(Point, Zero3)
    /\ points = <<>>
    /\ iterations = 0
    /\ next_direction = Vec(Zero3)
    /\ last_point = "null"
    /\ pool = <<>>
    /\ heap = <<>>
    /\ result = NoContact
    /\ ret = NoContact
    /\ faces = <<>>
    /\ closest = NoClosest
    /\ i = 0
    /\ acquired = {}
    /\ how = "none"
    /\ epa = NoEpa

\* the simplex and the globals addPoint works on
Simplex == [points |-> points, next_direction |-> next_direction,
            iterations |-> iterations, pool |-> pool, heap |-> heap, result |-> result]

\* testCollision( a, b ) up to the GJK loop: new Simplex, result = null
TestCollision(a, b) ==
    /\ pc \in {"idle", "done"}
    /\ queries < MaxQueries
    /\ queries' = queries + 1
    /\ object_a' = a
    /\ object_b' = b
    /\ \E S \in {GJKBegin(Simplex, a, b)} :
           /\ points' = S.points
           /\ iterations' = S.iterations
           /\ next_direction' = S.next_direction
           /\ result' = S.result
    /\ last_point' = "point"
    /\ faces' = <<>>
    /\ closest' = NoClosest
    /\ i' = 0
    /\ acquired' = {}
    /\ how' = "none"
    /\ epa' = NoEpa
    /\ pc' = "gjk"
    /\ UNCHANGED <<pool, heap, ret>>

\* one simplex.addPoint() of the GJK loop
AddPoint ==
    /\ pc = "gjk"
    /\ \E r \in {addPoint(Simplex, object_a, object_b, queries)} :
           /\ points' = r.S.points
           /\ next_direction' = r.S.next_direction
           /\ iterations' = r.S.iterations
           /\ pool' = r.S.pool
           /\ heap' = r.S.heap
           /\ result' = r.S.result
           /\ last_point' = r.ret
           /\ how' = r.how
           /\ acquired' = IF r.got = 0 THEN acquired ELSE acquired \cup {r.got}
           /\ pc' = IF r.ret = "point" THEN "gjk" ELSE "gjk_exit"
    /\ UNCHANGED <<queries, object_a, object_b, ret, faces, closest, i, epa>>

\* the end of GJK (lines 77-83) and testCollision's dispatch on what it returned;
\* on the EPA branch, EPA's new Polyhedron( simplex ) and var i = 0
GJKExit ==
    /\ pc = "gjk_exit"
    /\ pool' = IF last_point = "false" THEN freeSimplex(pool, points) ELSE pool
    /\ \E br \in {testCollisionBranch(result, last_point = "false")} :
           /\ ret' = IF br = "result" THEN result ELSE NoContact
           /\ pc' = IF br = "EPA" THEN "epa" ELSE "done"
           /\ faces' = IF br = "EPA" THEN Polyhedron(heap, points) ELSE faces
    /\ UNCHANGED <<queries, object_a, object_b, points, iterations, next_direction,
                   last_point, heap, result, closest, i, acquired, how, epa>>

\* the polyhedron and the globals an EPA iteration works on
Poly == [faces |-> faces, closest_face |-> closest.closest_face,
         closest_face_distance |-> closest.closest_face_distance,
         closest_point |-> closest.closest_point, i |-> i, pool |-> pool, heap |-> heap]

\* one iteration of EPA's loop; when it ends the loop, EPA's and testCollision's return
EPAStep ==
    /\ pc = "epa"
    /\ \E r \in {EPAIteration(Poly, object_a, object_b, queries)} :
           /\ faces' = r.P.faces
           /\ closest' = [closest_face |-> r.P.closest_face,
                          closest_face_distance |-> r.P.closest_face_distance,
                          closest_point |-> r.P.closest_point]
           /\ i' = r.P.i
           /\ pool' = r.P.pool
           /\ heap' = r.P.heap
           /\ acquired' = acquired \cup {r.got}
           /\ epa' = [how |-> r.how, nan |-> r.nan, calls |-> r.calls, edges |-> r.edges,
                      raw |-> r.raw, vertex |-> r.got,
                      freed |-> r.freed]
           /\ ret' = IF r.ret = "return" THEN r.contact ELSE ret
           /\ pc' = IF r.ret = "continue" THEN "epa" ELSE "done"
    /\ UNCHANGED <<queries, object_a, object_b, points, iterations, next_direction,
                   last_point, result, how>>

Next ==
    \/ \E sc \in Scenarios : TestCollision(sc[1], sc[2])
    \/ AddPoint
    \/ GJKExit
    \/ EPAStep

Spec == Init /\ [][Next]_vars

\* a step of the query that is running: each of AddPoint, GJKExit and EPAStep
\* advances pc, iterations or i
Step ==
    /\ pc \in {"gjk", "gjk_exit", "epa"}
    /\ pc' \in {"gjk", "gjk_exit", "epa", "done"}
    /\ iterations' \in 0..max_iterations
    /\ i' \in 0..max_iterations

\* testCollision is straight-line code: once called, its next step is taken
FairSpec == Spec /\ WF_<<pc, iterations, i>>(Step)

(* ------------------------------------------------------------------ *)
(* Properties                                                           *)
(* ------------------------------------------------------------------ *)

\* the elements of a sequence
Range(seq) == {seq[k] : k \in 1..Len(seq)}

\* no element occurs twice
NoDuplicates(seq) == \A k, l \in 1..Len(seq) : k # l => seq[k] # seq[l]

\* the SupportPoints the faces (active or not) refer to
FaceVertices(fs) == UNION {{fs[k].a, fs[k].b, fs[k].c} : k \in 1..Len(fs)}

\* the SupportPoints this query took from the pool and has not given back
Leaked == {id \in acquired : NotIn(pool, id)}

\* C1: when testCollision has returned, every SupportPoint the query took from
\* the 'GJK2SupportPoint' pool is back in the pool, on every exit path.
C1_AllReturned == pc = "done" => Leaked = {}

\* C2: freePolyhedron hands each distinct SupportPoint of the polyhedron's faces
\* to freeObject exactly once, and after a query the pool holds no SupportPoint
\* twice.
C2_FreedExactlyOnce ==
    /\ (pc = "done" /\ epa.how # "none") =>
           /\ NoDuplicates(epa.freed)
           /\ Range(epa.freed) = FaceVertices(faces)
    /\ pc = "done" => NoDuplicates(pool)

\* a discarded polyhedron with more faces than the first four, sharing vertices
C2_SharedVerticesFreed ==
    /\ pc = "done"
    /\ epa.how # "none"
    /\ Len(faces) > 4
    /\ Len(epa.freed) > 4

\* C3: testCollision returns the stashed shallow contact without running EPA,
\* returns no contact without running EPA when GJK found no overlap, and
\* otherwise returns what EPA returns; EPA runs exactly when GJK closed a
\* tetrahedron, on a simplex of exactly four points.
C3_Dispatch ==
    /\ pc = "done" =>
           /\ how = "margin" => (ret = result /\ ret.kind = "shallow" /\ faces = <<>> /\ epa = NoEpa)
           /\ how \in {"cap", "outside"} => (ret = NoContact /\ faces = <<>> /\ epa = NoEpa)
           /\ how = "tetrahedron" =>
                  /\ epa.how # "none"
                  /\ ret = IF epa.nan THEN NoContact ELSE ContactDetails("epa", queries, FALSE)
           /\ how \in {"margin", "cap", "outside", "tetrahedron"}
    /\ pc = "epa" => (how = "tetrahedron" /\ Len(points) = 4 /\ Len(faces) >= 4)
    /\ (pc \in {"gjk", "gjk_exit"} \/ how # "tetrahedron") => (faces = <<>> /\ i = 0)

\* EPA returned a contact for a closed tetrahedron
C3_EpaRan == pc = "done" /\ how = "tetrahedron" /\ ret.kind = "epa" /\ Len(points) = 4

\* C4: the result register is cleared at the start of every query, so a call
\* whose own GJK run did not take the margin-hit path never returns the contact
\* an earlier call stashed.
C4_RegisterCleared ==
    /\ result # NoContact => (how = "margin" /\ result.query = queries)
    /\ (pc = "done" /\ ret.kind = "shallow") => (how = "margin" /\ ret.query = queries)

\* the GJK run of a later query has ended without a margin hit, the register is
\* empty, and the call before it had returned a shallow contact
C4_AfterShallow ==
    /\ pc = "gjk_exit"
    /\ how # "margin"
    /\ result = NoContact
    /\ ret.kind = "shallow"
    /\ ret.query < queries

\* C5: every query terminates: the GJK loop makes at most max_iterations addPoint
\* calls, the last of which fails before it samples a support point, the EPA loop
\* runs at most max_iterations iterations, and each silhouette traversal of
\* addVertex finishes (it visits a face at most once from each of its neighbors).
C5_Terminates ==
    /\ [](/\ iterations <= max_iterations
          /\ i <= max_iterations
          /\ epa.calls <= 3 * Len(faces) + 1)
    /\ [][(pc = "gjk" /\ iterations = max_iterations - 1) =>
              /\ iterations' = max_iterations
              /\ last_point' = "false"
              /\ points' = points /\ pool' = pool /\ heap' = heap]_vars
    /\ (pc = "gjk" ~> pc = "done")

\* a query that ended because the GJK counter reached max_iterations
C5_GjkCapReached == pc = "done" /\ how = "cap" /\ iterations = max_iterations

\* C6: when GJK or EPA exhausts its iteration cap, testCollision reports no
\* contact rather than a ContactDetails.
C6_CapMeansNoContact ==
    (pc = "done" /\ (how = "cap" \/ epa.how = "cap")) => ret = NoContact

\* C6, amended: a GJK that exhausts its cap yields no contact; an EPA that reaches
\* iteration max_iterations without converging still assembles and returns its
\* contact, and yields no contact only when the barycentric coordinates are NaN.
C6_CapOutcome ==
    pc = "done" =>
        /\ how = "cap" => (iterations = max_iterations /\ ret = NoContact)
        /\ epa.how = "cap" =>
               /\ i = max_iterations
               /\ ret = IF epa.nan THEN NoContact ELSE ContactDetails("epa", queries, FALSE)

\* EPA ran out of iterations and returned a contact
C6_EpaCapContact == pc = "done" /\ epa.how = "cap" /\ i = max_iterations /\ ret.kind = "epa"

\* C7: when the barycentric coordinates computed during contact assembly are NaN,
\* no ContactDetails is stashed in the result register or returned, on the shallow
\* path and on the EPA path.
C7_NaNMeansNoContact ==
    /\ ~result.nan
    /\ ~ret.nan
    /\ (pc = "done" /\ epa.nan) => ret = NoContact

\* C8: after the first addPoint and after every later one the simplex holds
\* between one and four points.
C8_SimplexSize == iterations >= 1 => Len(points) \in 1..4

\* addPoint has filled the simplex up to four points
C8_FourPoints == pc = "gjk_exit" /\ iterations >= 4 /\ Len(points) = 4

\* C9: whenever addPoint is about to sample a support point, next_direction is
\* not the zero vector, from the initial state on and after every update.
C9_DirectionNonzero ==
    (pc = "gjk" /\ iterations + 1 < max_iterations) => ~IsZero(next_direction)

\* face g has the vertices u and v
SharesEdge(g, u, v) == {u, v} \subseteq {g.a, g.b, g.c}

\* C10: after construction and after every addVertex each active face has three
\* neighbors, all active, neighbors[0], [1], [2] across its edges ab, bc, ca, and
\* each of them lists the face in exactly one of its neighbor slots.
C10_Adjacency ==
    \A f \in 1..Len(faces) :
        faces[f].active =>
            LET face == faces[f]
            IN  /\ Len(face.neighbors) = 3
                /\ \A k \in 1..3 :
                       /\ face.neighbors[k] \in 1..Len(faces)
                       /\ faces[face.neighbors[k]].active
                       /\ Cardinality({m \in 1..3 :
                              faces[face.neighbors[k]].neighbors[m] = f}) = 1
                /\ SharesEdge(faces[face.neighbors[1]], face.a, face.b)
                /\ SharesEdge(faces[face.neighbors[2]], face.b, face.c)
                /\ SharesEdge(faces[face.neighbors[3]], face.c, face.a)

\* an addVertex has just replaced the faces visible from the new vertex
C10_AfterAddVertex == pc = "epa" /\ Len(epa.edges) >= 3 /\ Len(faces) >= 7

\* edge k ends where the next edge starts, the last one where the first starts
\* (an edge is << face, index, source, a, b >> in the names of addVertex)
Ring(edges) ==
    \A k \in 1..Len(edges) : edges[k][5] = edges[(k % Len(edges)) + 1][4]

\* C11: after the re-ordering pass of addVertex the silhouette edges form one closed
\* ring, and addVertex pushes exactly one new face per edge: face k of the new ones
\* is built on edge k (b, vertex, a) and has the face beyond the edge as neighbor
C11_ClosedRing ==
    /\ [](Ring(epa.edges))
    /\ [][(pc = "epa" /\ pc' = "epa") =>
            /\ Len(faces') = Len(faces) + Len(epa'.edges)
            /\ \A k \in 1..Len(epa'.edges) :
                  /\ faces'[Len(faces) + k].a = epa'.edges[k][5]
                  /\ faces'[Len(faces) + k].b = epa'.vertex
                  /\ faces'[Len(faces) + k].c = epa'.edges[k][4]
                  /\ faces'[Len(faces) + k].neighbors[3] = epa'.edges[k][1]]_vars

\* an addVertex whose silhouette traversal left the edges out of ring order
C11_Reordered ==
    pc = "epa" /\ Len(epa.edges) >= 4 /\ epa.raw # epa.edges /\ ~Ring(epa.raw)

\* the SupportPoint the next addPoint pushes on the simplex
NextPoint == getObject(pool, heap).id

\* an addPoint that pushes a second point a = NextPoint onto the point b = points[1]
\* and goes on to the 2-point direction update with (b - a) . (-a) < 0
LineBehind ==
    /\ pc = "gjk" /\ pc' = "gjk"
    /\ Len(points) = 1 /\ iterations' = iterations + 1
    /\ dot(subtractVectors(heap'[points[1]].point, heap'[NextPoint].point),
           scaleVector(heap'[NextPoint].point, -1)) < 0

\* C12: in the 2-point direction update with (b - a) . (-a) < 0, a the point just
\* added and b the older one, the simplex is cut back to the single point a, b goes
\* back to the pool, and next_direction becomes -a
C12_LineKeepsNewest ==
    [][LineBehind =>
        /\ points' = <<NextPoint>>
        /\ points[1] \in Range(pool')
        /\ next_direction' = Vec(scaleVector(heap'[NextPoint].point, -1))]_vars

\* an addPoint that pushes the first point a = NextPoint of the simplex and goes on
\* to the 1-point direction update
OnePoint ==
    /\ pc = "gjk" /\ pc' = "gjk"
    /\ Len(points) = 0 /\ iterations' = iterations + 1

\* C13: when the simplex holds exactly one point a, the direction update sets
\* next_direction to -a.point, whatever the initial direction and the support point
C13_OnePointDirection ==
    [][OnePoint =>
        next_direction' = Vec(scaleVector(heap'[NextPoint].point, -1))]_vars

\* the squared distance between the support point the last EPA iteration sampled
\* and closest_point
Gap == gapSquared(heap[epa.vertex].point, closest.closest_point)

\* C14: on EPA iteration i (1 <= i <= 20) EPA assembles and returns its result if and
\* only if i = 20 or (gap < epa_condition and closest_face_distance > EPSILON);
\* otherwise it inserts the new support point with addVertex and loops
C14_EpaReturns ==
    [][pc = "epa" =>
        /\ i' = i + 1 /\ i' \in 1..max_iterations
        /\ pc' = "done" <=>
              \/ i' = max_iterations
              \/ BelowEpaCondition(Gap') /\ CmpEpsilon(closest'.closest_face_distance) > 0
        /\ pc' = "done" =>
              ret' = IF epa'.nan THEN NoContact ELSE ContactDetails("epa", queries, FALSE)
        /\ pc' # "done" =>
              /\ pc' = "epa"
              /\ faces' = addVertex(heap', faces, closest'.closest_face, epa'.vertex).faces]_vars

\* before iteration 20, EPA has gone on although the gap was below epa_condition,
\* the closest face passing through the origin
C14_DegenerateGoesOn ==
    /\ pc = "epa" /\ epa.how = "continue" /\ i < max_iterations
    /\ BelowEpaCondition(Gap)
    /\ CmpEpsilon(closest.closest_face_distance) <= 0

\* the sign of face.classifyVertex( vertex ): -1, 0, 1, or 2 when it is NaN
SideOf(hp, face, vertex) ==
    SignDot(face.normal, subtractVectors(hp[vertex].point, hp[face.a].point))

\* the vertex the last EPA iteration sampled and handed to addVertex was not strictly
\* in front of the closest face
NotInFront ==
    /\ pc = "epa" /\ epa.how = "continue"
    /\ SideOf(heap, faces[closest.closest_face], epa.vertex) \in {-1, 0}

\* C15: when the new support vertex is not strictly in front of the closest face,
\* addVertex deactivates no face and creates none (faces and adjacency unchanged,
\* the vertex in no face); every later EPA iteration then finds the same closest
\* face, samples along the same direction, gets the same support point and inserts
\* nothing again, and EPA ends only at iteration 20
C15_NoOpInsertion ==
    /\ [][NotInFront' => /\ faces' = faces
                         /\ epa'.edges = <<>>
                         /\ epa'.vertex \notin FaceVertices(faces')]_vars
    /\ [][(NotInFront /\ i' # i) =>
            /\ closest' = closest
            /\ epaDirection(Poly') = epaDirection(Poly)
            /\ heap'[epa'.vertex] = heap[epa.vertex]
            /\ faces' = faces
            /\ pc' = "done" => i' = max_iterations]_vars

\* EPA has repeated a no-op insertion up to its last iteration but one
C15_StuckUntilCap ==
    NotInFront /\ i = max_iterations - 1 /\ epa.edges = <<>>

====
